---- MODULE Spec2Model ----
(***************************************************************************)
(* Model of polyhedron_analysis.py: the distortion-mode analysis of an     *)
(* octahedral coordination shell.                                          *)
(*                                                                         *)
(* Numbers.  The program computes in floating point.  The model computes   *)
(* in exact arithmetic: a coordinate list is a list of integer numerators  *)
(* over one common positive denominator, a squared amplitude is a reduced  *)
(* fraction, and the square root of a fraction q is the record             *)
(* [radicand |-> q] (sqrt is injective on the non-negative rationals, so   *)
(* two roots are equal exactly when their records are).  The inputs are    *)
(* restricted to shells whose bond lengths are whole numbers, so that the  *)
(* mean bond length of line 134 is itself a fraction.                      *)
(*                                                                         *)
(* Library calls.  CrystalNN.get_nn_info is an input (the list nn_info).   *)
(* HungarianOrderMatcher.match is modelled by its contract: it returns a   *)
(* correspondence and a proper rotation of least squared residual, and     *)
(* every pair of least residual is a possible outcome.  The candidate      *)
(* rotations are the 24 proper rotations that map the axes onto axes.      *)
(***************************************************************************)
EXTENDS Integers, Sequences, FiniteSets, TLC

\* ------------------------------------------------------------------ bounds
MaxBond == 2
NumOrders == 2
MaxShift == 1
MaxWeight == 2
MaxCand == 7

\* ------------------------------------------------------- integer helpers
Abs(x) == IF x < 0 THEN -x ELSE x

Min2(a, b) == IF a <= b THEN a ELSE b

Max2(a, b) == IF a >= b THEN a ELSE b

RECURSIVE GCD(_, _)
GCD(a, b) == IF b = 0 THEN a ELSE GCD(b, a % b)

\* the least r with r*r >= n; the exact root when n is a perfect square
ISqrt(n) == CHOOSE r \in 0..n : r * r >= n /\ (r = 0 \/ (r - 1) * (r - 1) < n)

IsSquare(n) == ISqrt(n) * ISqrt(n) = n

RECURSIVE SumSeq(_)
SumSeq(s) == IF s = <<>> THEN 0 ELSE Head(s) + SumSeq(Tail(s))

Range(s) == {s[i] : i \in DOMAIN s}

\* ------------------------------------------------------------- fractions
Frac(n, d) == LET g == GCD(Abs(n), d) IN [n |-> n \div g, d |-> d \div g]

FracZero == [n |-> 0, d |-> 1]

FracAdd(p, q) == Frac(p.n * q.d + q.n * p.d, p.d * q.d)

RECURSIVE FracSum(_)
FracSum(s) == IF s = <<>> THEN FracZero ELSE FracAdd(Head(s), FracSum(Tail(s)))

\* np.sqrt of a non-negative fraction
Root(q) == [radicand |-> q]

RootZero == Root(FracZero)

\* --------------------------------------------------------------- vectors
Zero3 == <<0, 0, 0>>

VAdd(u, v) == <<u[1] + v[1], u[2] + v[2], u[3] + v[3]>>

VSub(u, v) == <<u[1] - v[1], u[2] - v[2], u[3] - v[3]>>

VScale(k, v) == <<k * v[1], k * v[2], k * v[3]>>

VMul(u, v) == <<u[1] * v[1], u[2] * v[2], u[3] * v[3]>>

Dot(u, v) == u[1] * v[1] + u[2] * v[2] + u[3] * v[3]

Cross(u, v) ==
  <<u[2] * v[3] - u[3] * v[2], u[3] * v[1] - u[1] * v[3], u[1] * v[2] - u[2] * v[1]>>

RECURSIVE VSum(_)
VSum(s) == IF s = <<>> THEN Zero3 ELSE VAdd(Head(s), VSum(Tail(s)))

Unit(k) == <<IF k = 1 THEN 1 ELSE 0, IF k = 2 THEN 1 ELSE 0, IF k = 3 THEN 1 ELSE 0>>

\* np.dot(v, m): a row vector times a 3x3 matrix (a tuple of rows)
VecMat(v, m) ==
  <<v[1] * m[1][1] + v[2] * m[2][1] + v[3] * m[3][1],
    v[1] * m[1][2] + v[2] * m[2][2] + v[3] * m[3][2],
    v[1] * m[1][3] + v[2] * m[2][3] + v[3] * m[3][3]>>

Transpose(m) == [i \in 1..3 |-> [j \in 1..3 |-> m[j][i]]]

\* SymmOp.operate: the 3x3 block of the affine matrix times a column vector
MatVec(m, v) == <<Dot(m[1], v), Dot(m[2], v), Dot(m[3], v)>>

Det(m) == Dot(m[1], Cross(m[2], m[3]))

\* the proper rotations that map the coordinate axes onto themselves
Rotations ==
  {m \in {[i \in 1..3 |-> [j \in 1..3 |-> IF j = p[i] THEN s[i] ELSE 0]] :
            p \in Permutations(1..3), s \in [1..3 -> {-1, 1}]} : Det(m) = 1}

\* ravel(): the coordinates of a list of points, one after the other
RECURSIVE Flatten(_)
Flatten(pts) == IF pts = <<>> THEN <<>> ELSE Head(pts) \o Flatten(Tail(pts))

\* s[k:] of Python
DropFirst(s, k) == IF Len(s) <= k THEN <<>> ELSE SubSeq(s, k + 1, Len(s))

\* s[:k] of Python
TakeFirst(s, k) == SubSeq(s, 1, Min2(k, Len(s)))

\* ------------------------------------------------------ program constants
\* ideal_coords of calc_distortions_from_struct_octahedron_withcentre
ideal_coords ==
  << <<-1, 0, 0>>, <<0, -1, 0>>, <<0, 0, -1>>, <<0, 0, 1>>, <<0, 1, 0>>, <<1, 0, 0>> >>

NumIdeal == Len(ideal_coords)

\* The basis table of basis/octahedron_basis.json.  An entry [vec, nrm] is
\* the basis vector vec / sqrt(nrm): vec is the flattened list of one
\* displacement per vertex of ideal_coords, and nrm is its squared length.
BasisVec(displacements) ==
  LET v == Flatten(displacements)
  IN [vec |-> v, nrm |-> SumSeq([i \in 1..Len(v) |-> v[i] * v[i]])]

NextAxis(k) == (k % 3) + 1

\* the vertices of the ideal octahedron
Vertex(a) == ideal_coords[a]

OctahedronBasis ==
  << [irrep |-> "A1g",
      vectors |-> << BasisVec([a \in 1..NumIdeal |-> Vertex(a)]) >>],
     [irrep |-> "T1g",
      vectors |-> [k \in 1..3 |->
         BasisVec([a \in 1..NumIdeal |-> Cross(Unit(k), Vertex(a))])]],
     [irrep |-> "T1u_translation",
      vectors |-> [k \in 1..3 |-> BasisVec([a \in 1..NumIdeal |-> Unit(k)])]],
     [irrep |-> "Eg",
      vectors |-> << BasisVec([a \in 1..NumIdeal |-> VMul(<<-1, -1, 2>>, Vertex(a))]),
                     BasisVec([a \in 1..NumIdeal |-> VMul(<<1, -1, 0>>, Vertex(a))]) >>],
     [irrep |-> "T2g",
      vectors |-> [k \in 1..3 |->
         BasisVec([a \in 1..NumIdeal |->
                     VAdd(VScale(Vertex(a)[NextAxis(NextAxis(k))], Unit(NextAxis(k))),
                          VScale(Vertex(a)[NextAxis(k)], Unit(NextAxis(NextAxis(k)))))])]],
     [irrep |-> "T1u",
      vectors |-> [k \in 1..3 |->
         BasisVec([a \in 1..NumIdeal |->
                     VScale(IF Vertex(a)[k] # 0 THEN 2 ELSE -1, Unit(k))])]],
     [irrep |-> "T2u",
      vectors |-> [k \in 1..3 |->
         BasisVec([a \in 1..NumIdeal |->
                     VScale(IF Vertex(a)[NextAxis(k)] # 0 THEN 1
                            ELSE IF Vertex(a)[NextAxis(NextAxis(k))] # 0 THEN -1 ELSE 0,
                            Unit(k))])]] >>

\* a basis file that parses but whose vectors lack their last component
ShortBasis ==
  [i \in 1..Len(OctahedronBasis) |->
     [irrep |-> OctahedronBasis[i].irrep,
      vectors |-> [j \in 1..Len(OctahedronBasis[i].vectors) |->
         [vec |-> SubSeq(OctahedronBasis[i].vectors[j].vec, 1,
                         Len(OctahedronBasis[i].vectors[j].vec) - 1),
          nrm |-> OctahedronBasis[i].vectors[j].nrm]]]]

BasisKinds == {"ok", "unreadable", "not_json", "short_vectors"}

\* json.load of the basis file, when it succeeds
LoadedBasis(kind) == IF kind = "short_vectors" THEN ShortBasis ELSE OctahedronBasis

\* ------------------------------------------------------------------ inputs
\* A shell is the list of the six neighbour positions, here relative to the
\* point the structure is built around.  Orthorhombic shells have their
\* neighbours on the axes at distances 2a, 2b, 2c.
OrthoShell(a, b, c) ==
  << <<-2 * a, 0, 0>>, <<0, -2 * b, 0>>, <<0, 0, -2 * c>>,
     <<0, 0, 2 * c>>, <<0, 2 * b, 0>>, <<2 * a, 0, 0>> >>

\* the in-plane bonds sheared towards each other
ShearShell ==
  << <<-4, -3, 0>>, <<-3, -4, 0>>, <<0, 0, -5>>, <<0, 0, 5>>, <<3, 4, 0>>, <<4, 3, 0>> >>

\* the x bonds bent towards +y, the y bonds of unequal length
BentShell ==
  << <<-4, 3, 0>>, <<0, -8, 0>>, <<0, 0, -5>>, <<0, 0, 5>>, <<0, 2, 0>>, <<4, 3, 0>> >>

\* five neighbours on one side of their centroid and the sixth far away on
\* the other side
LopsidedShell ==
  << <<-24, 0, -7>>, <<3, -4, 0>>, <<4, 0, 3>>, <<3, 0, 4>>, <<3, 4, 0>>, <<11, 0, 0>> >>

Shells ==
  {OrthoShell(t[1], t[2], t[3]) :
     t \in {t \in (1..MaxBond) \X (1..MaxBond) \X (1..MaxBond) :
              t[1] <= t[2] /\ t[2] <= t[3]}}
    \cup {ShearShell, BentShell, LopsidedShell}

\* the position of the centre atom relative to the same point
Shifts == {<<s, 0, s \div 2>> : s \in 0..MaxShift}

\* the i-th order in which the neighbour search lists the candidates
OrderPerm(i) ==
  [j \in 1..NumIdeal |->
     IF i % 2 = 1 THEN ((j - 1 + (i - 1)) % NumIdeal) + 1
     ELSE NumIdeal - ((j - 1 + (i - 1)) % NumIdeal)]

\* the point the structures are built around
Base == <<1, 2, 3>>

\* the neighbour positions and the centre position in the structure
Placed(shell) == [i \in 1..Len(shell) |-> VAdd(Base, shell[i])]

\* The structure: a lattice with orthogonal axes, the centre atom and one
\* site per neighbour, each site inside the cell.  Site indices count from 0.
LatticeFor(positions, centre) ==
  [k \in 1..3 |->
     2 * (CHOOSE m \in 0..64 :
            /\ \A i \in 1..Len(positions) : Abs(positions[i][k]) <= m
            /\ Abs(centre[k]) <= m
            /\ \/ Abs(centre[k]) = m
               \/ \E i \in 1..Len(positions) : Abs(positions[i][k]) = m) + 2]

ImageOf(p) == <<IF p[1] < 0 THEN -1 ELSE 0, IF p[2] < 0 THEN -1 ELSE 0,
                IF p[3] < 0 THEN -1 ELSE 0>>

\* Lattice.get_cartesian_coords of an image offset (orthogonal axes)
get_cartesian_coords(lattice, image) ==
  <<image[1] * lattice[1], image[2] * lattice[2], image[3] * lattice[3]>>

MakeStruct(shell, shift, centre_index) ==
  LET lattice == LatticeFor(Placed(shell), VAdd(Base, shift))
      inside(p) == VSub(p, get_cartesian_coords(lattice, ImageOf(p)))
      n == Len(shell)
  IN [lattice |-> lattice,
      sites |-> [s \in 0..n |->
         IF s = centre_index THEN inside(VAdd(Base, shift))
         ELSE inside(Placed(shell)[IF s < centre_index THEN s + 1 ELSE s])]]

SiteOfNeighbour(j, centre_index) == IF j <= centre_index THEN j - 1 ELSE j

\* the candidate for neighbour j of the shell
Candidate(shell, j, centre_index, w) ==
  [site_index |-> SiteOfNeighbour(j, centre_index),
   image |-> ImageOf(Placed(shell)[j]), weight |-> w]

\* a further candidate: the next periodic image of neighbour j's site
FarCandidate(shell, j, centre_index, w) ==
  [site_index |-> SiteOfNeighbour(j, centre_index),
   image |-> VSub(ImageOf(Placed(shell)[j]), <<1, 0, 0>>), weight |-> w]

NNKinds == {"none", "pair", "six_equal", "six_mixed", "seven"}

\* what CrystalNN.get_nn_info returns for the centre atom
NNInfo(shell, centre_index, order, kind) ==
  LET cand(j, w) == Candidate(shell, OrderPerm(order)[j], centre_index, w)
  IN CASE kind = "none" -> <<>>
       [] kind = "pair" -> <<cand(3, 1), cand(4, 1)>>
       [] kind = "six_equal" -> [j \in 1..NumIdeal |-> cand(j, 1)]
       [] kind = "six_mixed" -> [j \in 1..NumIdeal |-> cand(j, 1 + (j % 2))]
       [] kind = "seven" ->
            <<FarCandidate(shell, 1, centre_index, 1)>>
              \o [j \in 1..NumIdeal |-> cand(j, 2)]

\* ------------------------------------------------- the program's functions
\* a faulty variant of InsertByWeight: an unstable sort, which puts a
\* candidate before those of its own weight
RECURSIVE InsertByWeightUnstable(_, _)
InsertByWeightUnstable(sorted, x) ==
  IF sorted = <<>> THEN <<x>>
  ELSE IF -Head(sorted).weight < -x.weight
       THEN <<Head(sorted)>> \o InsertByWeightUnstable(Tail(sorted), x)
       ELSE <<x>> \o sorted

\* sorted(..., key=lambda x: -x['weight']): a stable sort, heaviest first
RECURSIVE InsertByWeight(_, _)
InsertByWeight(sorted, x) ==
  IF sorted = <<>> THEN <<x>>
  ELSE IF -Head(sorted).weight <= -x.weight
       THEN <<Head(sorted)>> \o InsertByWeight(Tail(sorted), x)
       ELSE <<x>> \o sorted

RECURSIVE SortedFrom(_, _)
SortedFrom(sorted, rest) ==
  IF rest = <<>> THEN sorted
  ELSE SortedFrom(InsertByWeight(sorted, Head(rest)), Tail(rest))

SortedByWeight(s) == SortedFrom(<<>>, s)

\* lines 118-121: sorted(get_nn_info(...), key=...)[:len(ideal_coords)]
SelectNeighbours(info) == TakeFirst(SortedByWeight(info), NumIdeal)

\* lines 127-131: site coordinates plus the image offset in Cartesian form
TempCoords(struct, dict) ==
  [i \in 1..Len(dict) |->
     VAdd(struct.sites[dict[i].site_index],
          get_cartesian_coords(struct.lattice, dict[i].image))]

\* line 132: np.mean(temp_coords, axis=0), as numerator over denominator
MoleculeOrigin(coords) == [num |-> VSum(coords), den |-> Len(coords)]

\* coords[i] - origin, as a numerator over origin.den
FromOrigin(p, origin) == VSub(VScale(origin.den, p), origin.num)

\* lines 133-134: the mean distance of the points from the origin
AveBond(coords, origin) ==
  [num |-> SumSeq([i \in 1..Len(coords) |->
              ISqrt(Dot(FromOrigin(coords[i], origin), FromOrigin(coords[i], origin)))]),
   den |-> origin.den * Len(coords)]

\* the bond lengths are whole numbers once multiplied by the number of points
ExactShell(coords) ==
  \/ coords = <<>>
  \/ /\ \A i \in 1..Len(coords) :
          IsSquare(Dot(FromOrigin(coords[i], MoleculeOrigin(coords)),
                       FromOrigin(coords[i], MoleculeOrigin(coords))))
     /\ AveBond(coords, MoleculeOrigin(coords)).num > 0

RECURSIVE GCDAll(_, _)
GCDAll(s, g) == IF s = <<>> THEN g ELSE GCDAll(Tail(s), GCD(Abs(Head(s)), g))

\* a point list over one denominator, in lowest terms
Points(nums, den) ==
  LET g == GCDAll(Flatten(nums), den)
  IN [num |-> [i \in 1..Len(nums) |->
                 <<nums[i][1] \div g, nums[i][2] \div g, nums[i][3] \div g>>],
      den |-> den \div g]

\* lines 17-32: the centre at the zero vector, then the neighbours
\* (site + image - origin) / ave_bond
construct_molecule(struct, centre, nearest_neighbour_indices, bond, images, origin) ==
  Points(<<Zero3>> \o
           [i \in 1..Len(nearest_neighbour_indices) |->
              VScale(bond.den,
                     FromOrigin(VAdd(struct.sites[nearest_neighbour_indices[i]],
                                     get_cartesian_coords(struct.lattice, images[i])),
                                origin))],
         origin.den * bond.num)

\* lines 35-40 (species is not used)
construct_molecule_ideal(coords, species) == Points(<<Zero3>> \o coords, 1)

\* --------------------------------------------- HungarianOrderMatcher.match
RECURSIVE Tabulate(_, _)
Tabulate(f, n) == IF n = 0 THEN <<>> ELSE Append(Tabulate(f, n - 1), f[n])

MinOf(S) == CHOOSE c \in S : \A d \in S : c <= d

SqDist(u, v) == Dot(VSub(u, v), VSub(u, v))

\* the points less their centroid, as numerators over Len * den
Centred(m) ==
  LET n == Len(m.num)
      total == VSum(m.num)
  IN Tabulate([i \in 1..n |-> VSub(VScale(n, m.num[i]), total)], n)

\* The search for the correspondences of least residual under one rotation.
\* tbl[i][j] is the squared distance of rotated point j from reference point
\* i; a partial correspondence is dropped once it cannot stay within limit.
RECURSIVE RestBound(_, _)
RestBound(tbl, i) ==
  IF i > Len(tbl) THEN 0 ELSE MinOf(Range(tbl[i])) + RestBound(tbl, i + 1)

RECURSIVE Greedy(_, _, _)
Greedy(tbl, i, used) ==
  IF i > Len(tbl) THEN 0
  ELSE LET free == (1..Len(tbl)) \ used
           j == CHOOSE j \in free : \A k \in free : tbl[i][j] <= tbl[i][k]
       IN tbl[i][j] + Greedy(tbl, i + 1, used \cup {j})

RECURSIVE Complete(_, _, _, _, _)
Complete(tbl, bounds, limit, inds, partial) ==
  LET i == Len(inds) + 1
  IN IF i > Len(tbl) THEN {<<inds, partial>>}
     ELSE UNION {Complete(tbl, bounds, limit, Append(inds, j), partial + tbl[i][j]) :
                   j \in {j \in 1..Len(tbl) :
                            /\ \A k \in 1..Len(inds) : inds[k] # j
                            /\ partial + tbl[i][j] + bounds[i + 1] <= limit}}

\* Every (inds, u, v) the matcher may return for molecule p against the
\* reference q: point inds[i] of p is matched to point i of q (the model counts
\* points from 1), u is the rotation and v = centroid(q) - centroid(p).u the
\* translation, and the summed squared distance of the matched, centred
\* points is least among all correspondences and candidate rotations.
HungarianOrderMatcher_match(q, p) ==
  LET n == Len(q.num)
      cp == Centred(p)
      cq == Centred(q)
      P == Tabulate([i \in 1..n |-> VScale(q.den, cp[i])], n)
      Q == Tabulate([i \in 1..n |-> VScale(p.den, cq[i])], n)
      costOf(U) ==
        Tabulate([i \in 1..n |->
                    Tabulate([j \in 1..n |-> SqDist(VecMat(P[j], U), Q[i])], n)], n)
      perU == {<<U, costOf(U)>> : U \in Rotations}
      limit == MinOf({Greedy(uc[2], 1, {}) : uc \in perU})
      found ==
        UNION {{<<m[1], uc[1], m[2]>> :
                  m \in Complete(uc[2], Tabulate([i \in 1..(n + 1) |-> RestBound(uc[2], i)], n + 1),
                                 limit, <<>>, 0)} : uc \in perU}
      best == MinOf({m[3] : m \in found})
  IN {[inds |-> m[1], u |-> m[2],
       v |-> [num |-> VSub(VScale(p.den, VSum(q.num)),
                           VScale(q.den, VecMat(VSum(p.num), m[2]))),
              den |-> n * p.den * q.den]] : m \in {m \in found : m[3] = best}}

\* a faulty variant of TransformAndReorder: lines 54-55 left out
TransformWithoutReorder(molecule, m) ==
  Points([i \in 1..Len(molecule.num) |->
            VAdd(VScale(m.v.den, MatVec(Transpose(m.u), molecule.num[i])),
                 VScale(molecule.den, m.v.num))],
         molecule.den * m.v.den)

\* a faulty variant of TransformAndReorder: the index list used the wrong
\* way round, point i sent to place inds[i]
TransformAndReorderInverse(molecule, m) ==
  LET moved == [i \in 1..Len(molecule.num) |->
                  VAdd(VScale(m.v.den, MatVec(Transpose(m.u), molecule.num[i])),
                       VScale(molecule.den, m.v.num))]
  IN Points([i \in 1..Len(m.inds) |->
               moved[CHOOSE k \in 1..Len(m.inds) : m.inds[k] = i]],
            molecule.den * m.v.den)
\* lines 48-55: apply_operation with the affine matrix [u.T | v], then
\* _sites = _sites[inds]
TransformAndReorder(molecule, m) ==
  LET moved == [i \in 1..Len(molecule.num) |->
                  VAdd(VScale(m.v.den, MatVec(Transpose(m.u), molecule.num[i])),
                       VScale(molecule.den, m.v.num))]
  IN Points([i \in 1..Len(m.inds) |-> moved[m.inds[i]]], molecule.den * m.v.den)

\* lines 43-57: the possible results (molecule_transform, u, v); inds is kept
\* beside them for the record
match_molecules(molecule_transform, molecule_reference) ==
  {[molecule |-> TransformAndReorder(molecule_transform, m),
    u |-> m.u, v |-> m.v, inds |-> m.inds] :
     m \in HungarianOrderMatcher_match(molecule_reference, molecule_transform)}

\* the flattened difference of line 64-65 without its first 3 components, as
\* numerators over the product of the two denominators
Displacement(molecule, ideal) ==
  DropFirst(Flatten([i \in 1..Len(molecule.num) |->
                       VSub(VScale(ideal.den, molecule.num[i]),
                            VScale(molecule.den, ideal.num[i]))]), 3)

\* np.tensordot(..., axes=1) raises unless every basis vector is as long as
\* the displacement
TensordotDefined(distortions, d) ==
  \A j \in 1..Len(distortions) : Len(distortions[j].vec) = Len(d)

\* lines 60-65: one projection per basis vector; [num, den, nrm] is the
\* number num / (den * sqrt(nrm))
calc_displacement(molecule, ideal, distortions) ==
  LET d == Displacement(molecule, ideal)
  IN [j \in 1..Len(distortions) |->
        [num |-> SumSeq([c \in 1..Len(d) |-> distortions[j].vec[c] * d[c]]),
         den |-> molecule.den * ideal.den,
         nrm |-> distortions[j].nrm]]

\* a faulty variant of calc_displacement_centre: the origin is not subtracted
calc_displacement_centre_from_zero(struct, centre, origin, bond, matrix_rotation) ==
  [num |-> VecMat(VScale(bond.den * origin.den, struct.sites[centre]), matrix_rotation),
   den |-> origin.den * bond.num]

\* lines 68-72: ((centre - origin) / ave_bond) . matrix_rotation
calc_displacement_centre(struct, centre, origin, bond, matrix_rotation) ==
  [num |-> VecMat(VScale(bond.den, FromOrigin(struct.sites[centre], origin)),
                  matrix_rotation),
   den |-> origin.den * bond.num]

\* lines 159-160
CentreAmplitude(d) == Root(Frac(Dot(d.num, d.num), d.den * d.den))

\* line 163
Squared(amplitudes) ==
  [j \in 1..Len(amplitudes) |->
     Frac(amplitudes[j].num * amplitudes[j].num,
          amplitudes[j].den * amplitudes[j].den * amplitudes[j].nrm)]

\* s[a:b] of Python
Slice(s, a, b) == SubSeq(s, a + 1, Min2(b, Len(s)))

\* a faulty variant of SumPerIrrep: count goes up by one for each irrep
RECURSIVE SumPerIrrepByOne(_, _, _)
SumPerIrrepByOne(basis, squares, count) ==
  IF basis = <<>> THEN <<>>
  ELSE LET dim == Len(Head(basis).vectors)
       IN <<FracSum(Slice(squares, count, count + dim))>>
            \o SumPerIrrepByOne(Tail(basis), squares, count + 1)

\* lines 164-169: one sum per irrep, over the next dim squared projections
RECURSIVE SumPerIrrep(_, _, _)
SumPerIrrep(basis, squares, count) ==
  IF basis = <<>> THEN <<>>
  ELSE LET dim == Len(Head(basis).vectors)
       IN <<FracSum(Slice(squares, count, count + dim))>>
            \o SumPerIrrep(Tail(basis), squares, count + dim)

\* a faulty variant of DistortionModes: np.sqrt(temp_list)[2:]
DistortionModesFromThird(sums) == DropFirst([i \in 1..Len(sums) |-> Root(sums[i])], 2)

\* line 170: np.sqrt(temp_list)[3:]
DistortionModes(sums) == DropFirst([i \in 1..Len(sums) |-> Root(sums[i])], 3)

\* lines 102-105
IrrepDistortions(basis) ==
  Flatten([i \in 1..Len(basis) |-> basis[i].vectors])

\* ------------------------------------------------------------------- state
VARIABLES
  entry,              \* the function called: "main" or "octahedron"
  argv,               \* argvs[2], the 1-indexed number of the centre atom
  mp_struct,          \* the parsed structure
  basis_file,         \* the state of basis/octahedron_basis.json
  nn_info,            \* what get_nn_info returns for the centre atom
  pc,                 \* the statement the program is at
  stages,             \* the steps of the analysis entered so far
  stdout, stderr, exit_status,
  centre_atom, dict_basis, irrep_distortions,
  temp_dict, temp_coords, molecule_origin, ave_bond,
  pymatgen_molecule, pymatgen_molecule_ideal,
  matched,            \* what match_molecules returned
  distortion_amplitudes, centre_atom_amplitude, temp_list,
  result,             \* the value of calc_distortions_from_struct_octahedron_withcentre
  returned            \* the value of calc_distortions_from_struct_octahedron

inputs == <<entry, argv, mp_struct, basis_file, nn_info>>

output == <<stdout, stderr, exit_status>>

basis_vars == <<dict_basis, irrep_distortions>>

shell_vars == <<temp_dict, temp_coords, molecule_origin, ave_bond,
                pymatgen_molecule, pymatgen_molecule_ideal>>

amplitude_vars == <<distortion_amplitudes, centre_atom_amplitude, temp_list, result>>

vars == <<inputs, pc, stages, output, centre_atom, basis_vars, shell_vars, matched,
          amplitude_vars, returned>>

\* line 122
MinNeighbours == 6

HeaderLine == "#Eg, T2g, T1u, T2u, T1u(centre)"

IOErrorMessage == "IOError: failed reading from basis/octahedron_basis.json."

CoordinationMessage == "failed to find nearest neighbours"

\* what the interpreter writes for an exception nobody catches
Traceback(exception) == "Traceback: " \o exception

NoPoints == [num |-> <<>>, den |-> 1]

NoFraction == [num |-> Zero3, den |-> 1]

NoMatch == [molecule |-> NoPoints, u |-> <<>>, v |-> NoFraction, inds |-> <<>>]

Unset == 0 - 1

\* the state of the locals before the program has assigned them
LocalsUnset ==
  /\ stages = {}
  /\ stdout = <<>> /\ stderr = <<>> /\ exit_status = Unset
  /\ dict_basis = <<>> /\ irrep_distortions = <<>>
  /\ temp_dict = <<>> /\ temp_coords = <<>>
  /\ molecule_origin = NoFraction /\ ave_bond = [num |-> 0, den |-> 1]
  /\ pymatgen_molecule = NoPoints /\ pymatgen_molecule_ideal = NoPoints
  /\ matched = NoMatch
  /\ distortion_amplitudes = <<>> /\ centre_atom_amplitude = RootZero
  /\ temp_list = <<>> /\ result = <<>> /\ returned = <<>>

\* the centre atom is the first or the second site of the structure
CentreIndex(order) == order % 2

Init ==
  /\ \E shell \in Shells, shift \in Shifts, order \in 1..NumOrders, kind \in NNKinds :
       /\ mp_struct = MakeStruct(shell, shift, CentreIndex(order))
       /\ nn_info = NNInfo(shell, CentreIndex(order), order, kind)
       /\ ExactShell(TempCoords(mp_struct, SelectNeighbours(nn_info)))
       /\ \/ /\ entry = "main"
             /\ argv = CentreIndex(order) + 1
             /\ centre_atom = Unset
             /\ pc = "main"
             /\ basis_file \in BasisKinds
             /\ basis_file = "short_vectors" => order = 1
          \/ /\ entry = "octahedron"
             /\ argv = 0
             /\ centre_atom = CentreIndex(order)
             /\ pc = "read_basis"
             /\ basis_file \in {"ok", "unreadable"}
             /\ order = 1
             /\ kind \in {"six_equal", "none"}
  /\ LocalsUnset

\* ----------------------------------------------------------------- actions
\* sys.exit(1), or an exception that reaches the top of the program
Fail(message) ==
  /\ stderr' = Append(stderr, message)
  /\ exit_status' = 1
  /\ pc' = "exit"
  /\ UNCHANGED stdout

\* a faulty variant of ParseArguments: the argument taken as a site index
ParseArgumentsUnshifted ==
  /\ pc = "main"
  /\ centre_atom' = argv
  /\ pc' = "print_header"
  /\ UNCHANGED <<inputs, stages, output, basis_vars, shell_vars, matched,
                 amplitude_vars, returned>>

\* lines 176-182: the arguments and the structure file
ParseArguments ==
  /\ pc = "main"
  /\ centre_atom' = argv - 1
  /\ pc' = "print_header"
  /\ UNCHANGED <<inputs, stages, output, basis_vars, shell_vars, matched,
                 amplitude_vars, returned>>

\* line 185
PrintHeader ==
  /\ pc = "print_header"
  /\ stdout' = Append(stdout, [kind |-> "header", text |-> HeaderLine, value |-> <<>>])
  /\ pc' = "read_basis"
  /\ UNCHANGED <<inputs, stages, stderr, exit_status, centre_atom, basis_vars,
                 shell_vars, matched, amplitude_vars, returned>>

\* a faulty variant of ReadBasis: the handler of IOError writes its message
\* and does not exit
ReadBasisWithoutExit ==
  /\ pc = "read_basis"
  /\ stages' = stages \cup {"basis"}
  /\ CASE basis_file = "unreadable" ->
            /\ stderr' = Append(stderr, IOErrorMessage)
            /\ pc' = "neighbours"
            /\ UNCHANGED <<stdout, exit_status, basis_vars>>
       [] basis_file = "not_json" ->
            /\ Fail(Traceback("JSONDecodeError"))
            /\ UNCHANGED basis_vars
       [] OTHER ->
            /\ dict_basis' = LoadedBasis(basis_file)
            /\ irrep_distortions' = IrrepDistortions(LoadedBasis(basis_file))
            /\ pc' = "neighbours"
            /\ UNCHANGED output
  /\ UNCHANGED <<inputs, centre_atom, shell_vars, matched, amplitude_vars, returned>>

\* lines 94-105: only IOError is caught; a file that is not JSON raises
\* JSONDecodeError out of json.load
ReadBasis ==
  /\ pc = "read_basis"
  /\ stages' = stages \cup {"basis"}
  /\ CASE basis_file = "unreadable" ->
            /\ Fail(IOErrorMessage)
            /\ UNCHANGED basis_vars
       [] basis_file = "not_json" ->
            /\ Fail(Traceback("JSONDecodeError"))
            /\ UNCHANGED basis_vars
       [] OTHER ->
            /\ dict_basis' = LoadedBasis(basis_file)
            /\ irrep_distortions' = IrrepDistortions(LoadedBasis(basis_file))
            /\ pc' = "neighbours"
            /\ UNCHANGED output
  /\ UNCHANGED <<inputs, centre_atom, shell_vars, matched, amplitude_vars, returned>>

\* lines 107-124: the test of line 122 is on len(ideal_coords)
FindNeighbours ==
  /\ pc = "neighbours"
  /\ stages' = stages \cup {"neighbours"}
  /\ temp_dict' = SelectNeighbours(nn_info)
  /\ IF Len(ideal_coords) < MinNeighbours
     THEN Fail(CoordinationMessage \o "\n")
     ELSE /\ pc' = "molecules"
          /\ UNCHANGED output
  /\ UNCHANGED <<inputs, centre_atom, basis_vars, temp_coords, molecule_origin, ave_bond,
                 pymatgen_molecule, pymatgen_molecule_ideal, matched, amplitude_vars,
                 returned>>

\* lines 126-145: with no neighbour at all, np.sum(..., axis=1) of line 134
\* raises AxisError
DefineMolecules ==
  /\ pc = "molecules"
  /\ temp_coords' = TempCoords(mp_struct, temp_dict)
  /\ IF temp_dict = <<>>
     THEN /\ Fail(Traceback("AxisError"))
          /\ UNCHANGED <<stages, molecule_origin, ave_bond, pymatgen_molecule,
                         pymatgen_molecule_ideal>>
     ELSE /\ molecule_origin' = MoleculeOrigin(temp_coords')
          /\ ave_bond' = AveBond(temp_coords', molecule_origin')
          /\ stages' = stages \cup {"molecule"}
          /\ pymatgen_molecule' =
               construct_molecule(mp_struct, centre_atom,
                                  [i \in 1..Len(temp_dict) |-> temp_dict[i].site_index],
                                  ave_bond',
                                  [i \in 1..Len(temp_dict) |-> temp_dict[i].image],
                                  molecule_origin')
          /\ pymatgen_molecule_ideal' = construct_molecule_ideal(ideal_coords, <<>>)
          /\ pc' = "match"
          /\ UNCHANGED output
  /\ UNCHANGED <<inputs, centre_atom, basis_vars, temp_dict, matched, amplitude_vars,
                 returned>>

\* lines 147-149: the matcher raises ValueError unless both molecules have
\* the same number of atoms of each species
MatchMolecules ==
  /\ pc = "match"
  /\ stages' = stages \cup {"alignment"}
  /\ IF Len(pymatgen_molecule.num) # Len(pymatgen_molecule_ideal.num)
     THEN /\ Fail(Traceback("ValueError"))
          /\ UNCHANGED matched
     ELSE /\ matched' \in match_molecules(pymatgen_molecule, pymatgen_molecule_ideal)
          /\ pc' = "project"
          /\ UNCHANGED output
  /\ UNCHANGED <<inputs, centre_atom, basis_vars, shell_vars, amplitude_vars, returned>>

\* lines 151-172
Project ==
  /\ pc = "project"
  /\ stages' = stages \cup {"projection"}
  /\ IF ~TensordotDefined(irrep_distortions,
                          Displacement(matched.molecule, pymatgen_molecule_ideal))
     THEN /\ Fail(Traceback("ValueError"))
          /\ UNCHANGED amplitude_vars
     ELSE /\ distortion_amplitudes' =
               calc_displacement(matched.molecule, pymatgen_molecule_ideal,
                                 irrep_distortions)
          /\ centre_atom_amplitude' =
               CentreAmplitude(calc_displacement_centre(mp_struct, centre_atom,
                                 molecule_origin, ave_bond, matched.u))
          /\ temp_list' = SumPerIrrep(dict_basis, Squared(distortion_amplitudes'), 0)
          /\ result' = DistortionModes(temp_list') \o <<centre_atom_amplitude'>>
          /\ pc' = IF entry = "main" THEN "print_result" ELSE "return_modes"
          /\ UNCHANGED output
  /\ UNCHANGED <<inputs, centre_atom, basis_vars, shell_vars, matched, returned>>

\* lines 186-187
PrintResult ==
  /\ pc = "print_result"
  /\ stdout' = Append(stdout, [kind |-> "vector", text |-> "", value |-> result])
  /\ pc' = "return"
  /\ UNCHANGED <<inputs, stages, stderr, exit_status, centre_atom, basis_vars,
                 shell_vars, matched, amplitude_vars, returned>>

\* lines 189 and 193: sys.exit(main())
Return ==
  /\ pc = "return"
  /\ exit_status' = 0
  /\ pc' = "exit"
  /\ UNCHANGED <<inputs, stages, stdout, stderr, centre_atom, basis_vars, shell_vars,
                 matched, amplitude_vars, returned>>

\* lines 75-76
calc_distortions_from_struct_octahedron ==
  /\ pc = "return_modes"
  /\ returned' = TakeFirst(result, 4)
  /\ pc' = "returned"
  /\ UNCHANGED <<inputs, stages, output, centre_atom, basis_vars, shell_vars, matched,
                 amplitude_vars>>

Next ==
  \/ ParseArguments
  \/ PrintHeader
  \/ ReadBasis
  \/ FindNeighbours
  \/ DefineMolecules
  \/ MatchMolecules
  \/ Project
  \/ PrintResult
  \/ Return
  \/ calc_distortions_from_struct_octahedron

Spec == Init /\ [][Next]_vars

\* The neighbour selection on its own: the program at line 107, with any
\* list of at most MaxCand weighted candidates.  Candidate i is the i-th
\* periodic image of a site, so that image[1] tells the candidates apart.
InitSel ==
  /\ \E n \in 0..MaxCand : \E w \in [1..n -> 1..MaxWeight] :
       nn_info = [i \in 1..n |->
                    [site_index |-> i % (NumIdeal + 1), image |-> <<i, 0, 0>>,
                     weight |-> w[i]]]
  /\ entry = "main" /\ argv = 1 /\ centre_atom = 0
  /\ mp_struct = MakeStruct(OrthoShell(1, 1, 1), Zero3, 0)
  /\ basis_file = "ok"
  /\ pc = "neighbours"
  /\ stages = {"basis"}
  /\ stdout = <<[kind |-> "header", text |-> HeaderLine, value |-> <<>>]>>
  /\ stderr = <<>> /\ exit_status = Unset
  /\ dict_basis = OctahedronBasis
  /\ irrep_distortions = IrrepDistortions(OctahedronBasis)
  /\ temp_dict = <<>> /\ temp_coords = <<>>
  /\ molecule_origin = NoFraction /\ ave_bond = [num |-> 0, den |-> 1]
  /\ pymatgen_molecule = NoPoints /\ pymatgen_molecule_ideal = NoPoints
  /\ matched = NoMatch
  /\ distortion_amplitudes = <<>> /\ centre_atom_amplitude = RootZero
  /\ temp_list = <<>> /\ result = <<>> /\ returned = <<>>

NextSel == FindNeighbours

SpecSel == InitSel /\ [][NextSel]_vars

\* ================================================================== claims

NeighbourSteps == {"neighbours", "molecule", "alignment", "projection"}

VectorPrinted == \E i \in 1..Len(stdout) : stdout[i].kind = "vector"

NoVector == result = <<>> /\ returned = <<>> /\ ~VectorPrinted

\* C1 (as stated): with fewer than 6 candidates the analysis stops at the
\* neighbour search with the coordination message and status 1, and molecule
\* construction, alignment and projection are never entered.
C1_ShortfallIsCoordinationError ==
  (Len(nn_info) < MinNeighbours /\ "neighbours" \in stages) =>
     /\ pc = "exit" /\ exit_status = 1
     /\ stderr = <<CoordinationMessage \o "\n">>
     /\ stages \cap {"molecule", "alignment", "projection"} = {}
     /\ NoVector

\* C2 (as stated): whatever is wrong with the basis file, the analysis stops
\* at the read with a message and status 1, before the neighbour search.
C2_BasisFailureStopsAtRead ==
  (basis_file # "ok" /\ "basis" \in stages) =>
     /\ pc = "exit" /\ exit_status = 1 /\ stderr # <<>>
     /\ stages \cap NeighbourSteps = {}
     /\ NoVector

\* C2 (amended): an unreadable file and a file that is not JSON stop the
\* analysis at the read, with a message and status 1, before the neighbour
\* search.  A file that parses but whose vectors are too short is found out
\* only by the projection: the run then ends there with a message and
\* status 1.  No amplitude vector is produced in either case.
C2_BasisFailure ==
  /\ (basis_file \in {"unreadable", "not_json"} /\ "basis" \in stages) =>
        /\ pc = "exit" /\ exit_status = 1 /\ stderr # <<>>
        /\ stages \cap NeighbourSteps = {}
  /\ basis_file = "short_vectors" =>
        /\ "projection" \in stages => pc = "exit"
        /\ pc = "exit" => (exit_status = 1 /\ stderr # <<>>)
  /\ basis_file # "ok" => NoVector

C2_Witness ==
  /\ basis_file = "not_json" /\ pc = "exit" /\ exit_status = 1
  /\ stderr = <<Traceback("JSONDecodeError")>>

\* the place of a candidate in the list the search returned
PlaceInSearch(d) == d.image[1]

\* C5: the selection keeps the 6 heaviest candidates (all of them when there
\* are fewer), heaviest first; a kept candidate is at least as heavy as a
\* dropped one; among equal weights the order of the search is kept, and at
\* a tie between a kept and a dropped candidate the earlier one is kept.
C5_TopSixStable ==
  "neighbours" \in stages =>
     /\ Len(nn_info) >= MinNeighbours => Len(temp_dict) = 6
     /\ Len(nn_info) < MinNeighbours => Len(temp_dict) = Len(nn_info)
     /\ \A i \in 1..Len(temp_dict) :
          /\ PlaceInSearch(temp_dict[i]) \in 1..Len(nn_info)
          /\ nn_info[PlaceInSearch(temp_dict[i])] = temp_dict[i]
     /\ \A i, j \in 1..Len(temp_dict) :
          i < j => /\ temp_dict[i].weight >= temp_dict[j].weight
                   /\ temp_dict[i].weight = temp_dict[j].weight =>
                        PlaceInSearch(temp_dict[i]) < PlaceInSearch(temp_dict[j])
     /\ \A k \in 1..Len(nn_info) :
          (\A i \in 1..Len(temp_dict) : PlaceInSearch(temp_dict[i]) # k) =>
             \A i \in 1..Len(temp_dict) :
               /\ temp_dict[i].weight >= nn_info[k].weight
               /\ temp_dict[i].weight = nn_info[k].weight =>
                    PlaceInSearch(temp_dict[i]) < k

\* a tie between the 6th and the 7th weight, with lighter candidates kept out
C5_Witness ==
  /\ "neighbours" \in stages
  /\ Len(nn_info) = 7
  /\ nn_info[7].weight = temp_dict[6].weight
  /\ nn_info[1].weight < nn_info[7].weight
  /\ PlaceInSearch(temp_dict[1]) # 1

\* C7: main turns the 1-indexed argument n into site index n-1; the header is
\* on the output before the analysis starts; the vector is printed only after
\* the analysis, and is its result; a run that printed the vector ends with
\* status 0; a run with an unreadable basis file ends with status 1, the
\* header printed and no vector.
C7_MainProtocol ==
  entry = "main" =>
     /\ pc # "main" => centre_atom = argv - 1
     /\ stages # {} => (Len(stdout) >= 1 /\ stdout[1].kind = "header"
                         /\ stdout[1].text = HeaderLine)
     /\ \A i \in 1..Len(stdout) :
          stdout[i].kind = "vector" =>
             /\ i = 2
             /\ "projection" \in stages
             /\ result # <<>>
             /\ stdout[i].value = result
     /\ pc = "exit" => (exit_status = 0 <=> VectorPrinted)
     /\ (pc = "exit" /\ basis_file = "unreadable") =>
          /\ exit_status = 1
          /\ stderr = <<IOErrorMessage>>
          /\ Len(stdout) = 1
          /\ NoVector

C7_Witness ==
  /\ entry = "main" /\ pc = "exit" /\ exit_status = 0
  /\ argv = 2 /\ centre_atom = 1
  /\ Len(stdout) = 2 /\ stdout[2].value = result

Identity3 == <<<<1, 0, 0>>, <<0, 1, 0>>, <<0, 0, 1>>>>

Analysed == pc \in {"print_result", "return_modes"}

CentrePosition == mp_struct.sites[centre_atom]

\* the six selected neighbours sit at centre + L * (signed unit axis) for one
\* bond length L: a perfect octahedron with the centre atom at its centroid
PerfectOctahedron ==
  /\ Len(temp_coords) = NumIdeal
  /\ \E L \in 1..(2 * MaxBond + 2) :
       Range(temp_coords) =
         {VAdd(CentrePosition, VScale(L, ideal_coords[i])) : i \in 1..NumIdeal}

FiveZeros == <<RootZero, RootZero, RootZero, RootZero, RootZero>>

\* C3: for a perfect octahedron, whatever the order of its neighbours, the
\* analysis ends without an error and its result is five zeros.
C3_PerfectOctahedronIsZero ==
  (basis_file = "ok" /\ "projection" \in stages /\ PerfectOctahedron) =>
     /\ result = FiveZeros
     /\ exit_status # 1

C3_Witness ==
  /\ pc = "exit" /\ exit_status = 0 /\ PerfectOctahedron
  /\ result = FiveZeros
  /\ \A L \in 1..(2 * MaxBond + 2) :
       temp_coords[1] # VAdd(CentrePosition, VScale(L, ideal_coords[1]))
  /\ matched.u # Identity3

\* The analysis of lines 126-172 of six candidates taken in the order given,
\* for every outcome of the matcher.
ResultsInOrder(struct, centre, dict, basis) ==
  LET coords == TempCoords(struct, dict)
      origin == MoleculeOrigin(coords)
      bond == AveBond(coords, origin)
      molecule == construct_molecule(struct, centre,
                    [i \in 1..Len(dict) |-> dict[i].site_index], bond,
                    [i \in 1..Len(dict) |-> dict[i].image], origin)
      ideal == construct_molecule_ideal(ideal_coords, <<>>)
  IN {DistortionModes(SumPerIrrep(basis,
         Squared(calc_displacement(m.molecule, ideal, IrrepDistortions(basis))), 0))
        \o <<CentreAmplitude(calc_displacement_centre(struct, centre, origin, bond, m.u))>> :
        m \in match_molecules(molecule, ideal)}

\* every shell and centre of the inputs, analysed with its candidates
\* supplied in the order of the shell's definition
ReferenceRuns ==
  {[neighbours |-> Range(Placed(in[1])),
    centre |-> VAdd(Base, in[2]),
    results |-> ResultsInOrder(MakeStruct(in[1], in[2], 0), 0,
                               [j \in 1..NumIdeal |-> Candidate(in[1], j, 0, 1)],
                               OctahedronBasis)] : in \in Shells \X Shifts}

ReferenceRun ==
  CHOOSE run \in ReferenceRuns :
    run.neighbours = Range(temp_coords) /\ run.centre = CentrePosition

Projected == result # <<>>

\* the position of a label among the irreps of the loaded table
IrrepIndex(label) == CHOOSE i \in 1..Len(dict_basis) : dict_basis[i].irrep = label

\* the amplitude of the i-th irrep of the table
IrrepAmplitude(i) == Root(temp_list[i])

\* C6: the result is the amplitudes of the irreps in the order of the table,
\* without those of the first 3 irreps, followed by the central displacement
\* alone; it has (number of irreps - 3) + 1 entries; what
\* calc_distortions_from_struct_octahedron returns is the amplitudes of Eg,
\* T2g, T1u and T2u, without the central displacement.
C6_ResultLayout ==
  /\ Projected =>
       /\ Len(temp_list) = Len(dict_basis)
       /\ Len(result) = (Len(dict_basis) - 3) + 1
       /\ \A i \in 4..Len(dict_basis) : result[i - 3] = IrrepAmplitude(i)
       /\ result[Len(result)] = centre_atom_amplitude
  /\ pc = "returned" =>
       /\ returned = <<IrrepAmplitude(IrrepIndex("Eg")), IrrepAmplitude(IrrepIndex("T2g")),
                       IrrepAmplitude(IrrepIndex("T1u")), IrrepAmplitude(IrrepIndex("T2u"))>>
       /\ Len(returned) = Len(result) - 1
       /\ \A i \in 1..Len(returned) : returned[i] = result[i]

C6_Witness ==
  /\ pc = "returned"
  /\ returned[1] # RootZero /\ returned[3] # RootZero /\ returned[4] # RootZero
  /\ returned[1] # returned[3] /\ returned[3] # returned[4]
  /\ result[5] # RootZero /\ result[5] \notin Range(returned)

\* the number of basis vectors listed under the irreps before the k-th
BlockStart(k) == SumSeq([i \in 1..(k - 1) |-> Len(dict_basis[i].vectors)])

SquaredProjection(j) ==
  Frac(distortion_amplitudes[j].num * distortion_amplitudes[j].num,
       distortion_amplitudes[j].den * distortion_amplitudes[j].den
         * distortion_amplitudes[j].nrm)

\* C8: the projections are one per basis vector, in the order of the table;
\* the block of the k-th irrep starts after the vectors of all earlier irreps
\* and is as long as the irrep has vectors; the blocks cover the whole list;
\* the sum kept for an irrep is the sum of the squared projections of its
\* block, and its amplitude the square root of that sum.
C8_ContiguousBlocks ==
  Projected =>
     /\ Len(distortion_amplitudes) = BlockStart(Len(dict_basis) + 1)
     /\ Len(irrep_distortions) = Len(distortion_amplitudes)
     /\ Len(temp_list) = Len(dict_basis)
     /\ \A k \in 1..Len(dict_basis) :
          /\ \A j \in 1..Len(dict_basis[k].vectors) :
               /\ irrep_distortions[BlockStart(k) + j] = dict_basis[k].vectors[j]
               /\ distortion_amplitudes[BlockStart(k) + j].nrm = dict_basis[k].vectors[j].nrm
          /\ temp_list[k] =
               FracSum([j \in 1..Len(dict_basis[k].vectors) |->
                          SquaredProjection(BlockStart(k) + j)])
          /\ k > 3 => result[k - 3] = Root(temp_list[k])

\* three irreps of different sums, one of them with two non-zero projections
C8_Witness ==
  /\ Projected
  /\ temp_list[4] # FracZero /\ temp_list[6] # FracZero /\ temp_list[7] # FracZero
  /\ temp_list[4] # temp_list[6] /\ temp_list[6] # temp_list[7]
  /\ \E k \in 4..7 : \E i, j \in 1..Len(dict_basis[k].vectors) :
       /\ i # j
       /\ distortion_amplitudes[BlockStart(k) + i].num # 0
       /\ distortion_amplitudes[BlockStart(k) + j].num # 0

\* point i of the molecule handed to the matcher, rotated by u and moved by
\* v, as a numerator over pymatgen_molecule.den * matched.v.den
TransformedPoint(i) ==
  VAdd(VScale(matched.v.den, VecMat(pymatgen_molecule.num[i], matched.u)),
       VScale(pymatgen_molecule.den, matched.v.num))

\* point i of the aligned molecule is point k of the transformed input
SamePoint(i, k) ==
  VScale(pymatgen_molecule.den * matched.v.den, matched.molecule.num[i])
    = VScale(matched.molecule.den, TransformedPoint(k))

\* the flattened difference of line 64-65, all of it
WholeDisplacement ==
  Flatten([i \in 1..Len(matched.molecule.num) |->
             VSub(VScale(pymatgen_molecule_ideal.den, matched.molecule.num[i]),
                  VScale(matched.molecule.den, pymatgen_molecule_ideal.num[i]))])

FromCentroid(p) == VSub(VScale(NumIdeal, p), VSum(temp_coords))

\* the sum of the six bond lengths, times six
SumOfBonds ==
  SumSeq([i \in 1..NumIdeal |->
            ISqrt(Dot(FromCentroid(temp_coords[i]), FromCentroid(temp_coords[i])))])

\* C10: the central displacement is the centre atom's position from the
\* centroid of the six neighbours, over the average bond length that also
\* scales the molecule, turned by the rotation applied to the molecule; its
\* magnitude, the last entry of the result, is |centre - centroid| / ave_bond
\* whatever rotation the matcher returned, and is 0 exactly when the centre
\* atom is at the centroid.
C10_CentralDisplacement ==
  (Projected /\ Len(temp_coords) = NumIdeal) =>
     LET bonds == SumOfBonds
         centre == FromCentroid(CentrePosition)
         d == calc_displacement_centre(mp_struct, centre_atom, molecule_origin,
                                       ave_bond, matched.u)
     IN /\ ave_bond.num * NumIdeal * NumIdeal = bonds * ave_bond.den
        /\ \A i \in 1..NumIdeal :
             VScale(bonds, pymatgen_molecule.num[i + 1])
               = VScale(NumIdeal * pymatgen_molecule.den, FromCentroid(temp_coords[i]))
        /\ VScale(bonds, d.num) = VScale(NumIdeal * d.den, VecMat(centre, matched.u))
        /\ centre_atom_amplitude = Root(Frac(Dot(d.num, d.num), d.den * d.den))
        /\ centre_atom_amplitude =
             Root(Frac(NumIdeal * NumIdeal * Dot(centre, centre), bonds * bonds))
        /\ result[Len(result)] = centre_atom_amplitude
        /\ centre_atom_amplitude = RootZero
             <=> VScale(NumIdeal, CentrePosition) = VSum(temp_coords)

C10_Witness ==
  /\ Projected /\ Len(temp_coords) = NumIdeal
  /\ centre_atom_amplitude # RootZero
  /\ matched.u # Identity3
  /\ pymatgen_molecule.num[1] = Zero3

====
